---- MODULE Spec2Model ----
(***************************************************************************)
(* A model of cargo's package core (src/cargo/core/package.rs) and of its  *)
(* registry operations (src/cargo/ops/registry.rs).                        *)
(*                                                                         *)
(* Four specifications share the module's variables:                       *)
(*   SpecSet     a PackageSet and the get calls made on it                 *)
(*   SpecTarget  Package::find_closest_target on a fixed target list       *)
(*   SpecReg     one run of publish, yank, modify_owners or search         *)
(*   SpecNet     one call of http_proxy or http_proxy_exists               *)
(* Each keeps the variables of the others at their idle values.            *)
(***************************************************************************)
EXTENDS Integers, Sequences, FiniteSets, TLC

VARIABLES
  \* ---- PackageSet (package.rs:124-166)
  packages,    \* Vec<(PackageId, LazyCell<Package>)>: sequence of [id, slot]
  sources,     \* the SourceMap inside the RefCell: the registered source ids
  borrowed,    \* the RefCell's borrow flag: TRUE while a RefMut is alive
  inflight,    \* <<id>> while a get is inside source.download(id), else <<>>
  downloads,   \* per identifier, how often Source::download was invoked
  failed,      \* per identifier, how often Source::download returned Err
  resolved,    \* per identifier, how often get returned Ok
  ncalls,      \* get calls made so far
  ret,         \* what the last finished get did and returned
  panicked,    \* "none", or the panic that ended the program
  \* ---- Package::find_closest_target (package.rs:94-101)
  targets,     \* the package's targets: sequence of [name, kind]
  query,       \* the call's arguments: [name, kind]
  closest,     \* <<>> before the call, then <<r>> with r the Option returned
  \* ---- registry operations (registry.rs)
  config,      \* the Config the command runs under
  cmd,         \* the command that ran and its arguments; op "idle" before
  log,         \* in order: shell output, file reads and calls of collaborators
  result       \* the CargoResult the command returned: [ok, err]

setVars == <<packages, sources, borrowed, inflight, downloads, failed, resolved,
             ncalls, ret, panicked>>

targetVars == <<targets, query, closest>>

regVars == <<config, cmd, log, result>>

vars == <<setVars, targetVars, regVars>>

(***************************************************************************)
(* Option<T>: <<>> is None, <<v>> is Some(v).                              *)
(***************************************************************************)
Some(v) == <<v>>
IsSome(o) == o # <<>>
Unwrap(o) == o[1]

\* ------------------------------------------------------------------------
\* PackageSet
\* ------------------------------------------------------------------------

\* Bounds of the PackageSet model.
MaxIds == 2
MaxCalls == 3

SourceIds == {"s1", "s2"}
PackageIds == { [name |-> "a", source |-> "s1"],
                [name |-> "b", source |-> "s1"],
                [name |-> "c", source |-> "s2"] }
\* What a source can hand out for an identifier: two manifests per id, so
\* that a stored Package can be told from a later download of the same id.
Contents == {1, 2}
Package(id, c) == [id |-> id, content |-> c]
\* Source::download's result: <<>> is Err, <<c>> the Package with content c.
DownloadResults == {<<>>} \cup { Some(c) : c \in Contents }

IdLists == UNION { [1..n -> PackageIds] : n \in 0..MaxIds }

\* PackageSet::new: one empty LazyCell per identifier, in the list's order.
PackageSetNew(ids) == [i \in 1..Len(ids) |-> [id |-> ids[i], slot |-> <<>>]]

\* LazyCell::borrow
LazyCellBorrow(slot) == slot

\* LazyCell::fill: Err when the cell is already filled, and the cell unchanged.
LazyCellFill(slot, pkg) ==
  IF IsSome(slot) THEN [ok |-> FALSE, slot |-> slot]
                  ELSE [ok |-> TRUE, slot |-> Some(pkg)]

\* A find that ignores the identifier and takes the front entry.
FindSlot_Front(pkgs, id) == IF Len(pkgs) = 0 THEN 0 ELSE 1

\* self.packages.iter().find(|p| p.0 == *id): the first index, 0 when none.
FindSlot(pkgs, id) ==
  LET hits == { i \in 1..Len(pkgs) : pkgs[i].id = id }
  IN IF hits = {} THEN 0 ELSE CHOOSE i \in hits : \A j \in hits : i <= j

\* A get that skips the slot check of line 149.
SlotFilled_Never(slot) == FALSE

\* line 149: if let Some(pkg) = slot.borrow()
SlotFilled(slot) == IsSome(LazyCellBorrow(slot))

\* A source map that hands out a second RefMut while one is alive.
AlreadyBorrowed_Never(flag) == FALSE

\* line 152: RefCell::borrow_mut panics while another RefMut is alive
AlreadyBorrowed(flag) == flag

\* A source map that has a source for every identifier.
HasSource_Always(srcs, id) == TRUE

\* line 153: sources.get_mut(id.source_id()) is Some
HasSource(srcs, id) == id.source \in srcs

NoRet == [id |-> <<>>, res |-> "none", pkg |-> <<>>, used_sources |-> FALSE]

\* The variables of the PackageSet while another part runs.
IdleSet ==
  /\ packages = <<>>
  /\ sources = {}
  /\ borrowed = FALSE
  /\ inflight = <<>>
  /\ downloads = [id \in PackageIds |-> 0]
  /\ failed = [id \in PackageIds |-> 0]
  /\ resolved = [id \in PackageIds |-> 0]
  /\ ncalls = 0
  /\ ret = NoRet
  /\ panicked = "none"

\* The variables of find_closest_target while another part runs.
IdleTarget == targets = <<>> /\ query = <<>> /\ closest = <<>>

\* The variables of the registry operations while another part runs.
IdleReg ==
  /\ config = <<>>
  /\ cmd = [op |-> "idle"]
  /\ log = <<>>
  /\ result = <<>>

InitSet ==
  /\ IdleTarget
  /\ IdleReg
  /\ \E ids \in IdLists : packages = PackageSetNew(ids)
  /\ sources \in SUBSET SourceIds
  /\ borrowed = FALSE
  /\ inflight = <<>>
  /\ downloads = [id \in PackageIds |-> 0]
  /\ failed = [id \in PackageIds |-> 0]
  /\ resolved = [id \in PackageIds |-> 0]
  /\ ncalls = 0
  /\ ret = NoRet
  /\ panicked = "none"

\* What a get that ends leaves in ret and resolved.
GetReturn(id, res, pkg, used) ==
  /\ ret' = [id |-> Some(id), res |-> res, pkg |-> pkg, used_sources |-> used]
  /\ resolved' = IF res = "ok" THEN [resolved EXCEPT ![id] = @ + 1] ELSE resolved

\* PackageSet::get up to the call of source.download(id) (lines 145-156).
\* It is called on an idle set, or again from inside a running download.
Get(id) ==
  /\ panicked = "none"
  /\ ncalls < MaxCalls
  /\ ncalls' = ncalls + 1
  /\ LET i == FindSlot(packages, id) IN
     IF i = 0 THEN
       \* line 145: "couldn't find `{}` in package set"
       /\ GetReturn(id, "no_package", <<>>, FALSE)
       /\ UNCHANGED <<packages, sources, borrowed, inflight, downloads, failed, panicked>>
     ELSE IF SlotFilled(packages[i].slot) THEN
       \* lines 149-151
       /\ GetReturn(id, "ok", LazyCellBorrow(packages[i].slot), FALSE)
       /\ UNCHANGED <<packages, sources, borrowed, inflight, downloads, failed, panicked>>
     ELSE IF AlreadyBorrowed(borrowed) THEN
       \* line 152: the panic ends the program; ret keeps which get it was
       /\ panicked' = "already_borrowed"
       /\ GetReturn(id, "panic", <<>>, FALSE)
       /\ UNCHANGED <<packages, sources, borrowed, inflight, downloads, failed>>
     ELSE IF ~HasSource(sources, id) THEN
       \* lines 153-155: the RefMut is dropped on return
       /\ GetReturn(id, "no_source", <<>>, TRUE)
       /\ UNCHANGED <<packages, sources, borrowed, inflight, downloads, failed, panicked>>
     ELSE
       \* line 156: download is entered with the RefMut held
       /\ borrowed' = TRUE
       /\ inflight' = <<id>>
       /\ downloads' = [downloads EXCEPT ![id] = @ + 1]
       /\ UNCHANGED <<packages, sources, failed, resolved, ret, panicked>>

\* source.download(id) returns and get finishes (lines 156-160).
DownloadReturns ==
  /\ panicked = "none"
  /\ inflight # <<>>
  /\ LET id == inflight[1]
         i == FindSlot(packages, id) IN
     \E out \in DownloadResults :
       /\ inflight' = <<>>
       /\ IF ~IsSome(out) THEN
            \* lines 156-158: "unable to get packages from source"
            /\ borrowed' = FALSE
            /\ failed' = [failed EXCEPT ![id] = @ + 1]
            /\ GetReturn(id, "download_failed", <<>>, TRUE)
            /\ UNCHANGED <<packages, panicked>>
          ELSE
            LET f == LazyCellFill(packages[i].slot, Package(id, Unwrap(out))) IN
            IF ~f.ok THEN
              \* line 159: assert!(slot.fill(pkg).is_ok())
              /\ panicked' = "fill_assert"
              /\ UNCHANGED <<packages, borrowed, failed, resolved, ret>>
            ELSE
              /\ packages' = [packages EXCEPT ![i].slot = f.slot]
              /\ borrowed' = FALSE
              /\ GetReturn(id, "ok", LazyCellBorrow(f.slot), TRUE)
              /\ UNCHANGED <<failed, panicked>>
  /\ UNCHANGED <<sources, downloads, ncalls>>

GetAny == (\E id \in PackageIds : Get(id)) /\ UNCHANGED <<targetVars, regVars>>

DownloadDone == DownloadReturns /\ UNCHANGED <<targetVars, regVars>>

NextSet == GetAny \/ DownloadDone

SpecSet == InitSet /\ [][NextSet]_vars

\* The slot get(id) reads: that of the first entry for id.
SlotOf(id) == packages[FindSlot(packages, id)].slot

\* C1 as stated: an identifier resolved successfully twice or more has had
\* download invoked exactly once.
C1_DownloadExactlyOnce ==
  \A id \in PackageIds : resolved[id] >= 2 => downloads[id] = 1

\* C1, amended: once get(id) has succeeded, exactly one download of id has
\* returned a Package, every other download of id is a failed attempt made
\* before it, and every later successful get(id) returned the stored
\* Package without borrowing the source map.
C1_OneDownloadPerFill ==
  \A id \in PackageIds :
    /\ resolved[id] >= 1 =>
         /\ downloads[id] = failed[id] + 1
         /\ inflight # <<id>>
         /\ IsSome(SlotOf(id))
    /\ (resolved[id] >= 2 /\ ret.id = <<id>> /\ ret.res = "ok") =>
         /\ ~ret.used_sources
         /\ ret.pkg = SlotOf(id)

\* C1's case: an identifier resolved twice after a failed download.
C1_Witness ==
  \E id \in PackageIds :
    resolved[id] >= 2 /\ failed[id] = 1 /\ downloads[id] = 2

\* C10: a slot is Empty or holds one Package of its identifier; a filled
\* slot is never emptied or overwritten, the identifier list is fixed, and
\* the assertion on fill never fails.
C10_Step ==
  /\ Len(packages') = Len(packages)
  /\ \A i \in 1..Len(packages) :
       /\ packages'[i].id = packages[i].id
       /\ IsSome(packages[i].slot) => packages'[i].slot = packages[i].slot
  /\ panicked' # "fill_assert"

C10_SlotShape ==
  \A i \in 1..Len(packages) :
    \/ packages[i].slot = <<>>
    \/ \E c \in Contents : packages[i].slot = Some(Package(packages[i].id, c))

C10_FillOnce == []C10_SlotShape /\ [][C10_Step]_vars

\* C10's case: a filled slot was asked for again and answered from the slot.
C10_Witness ==
  \E i \in 1..Len(packages) :
    /\ IsSome(packages[i].slot)
    /\ ret.id = <<packages[i].id>>
    /\ ret.res = "ok"
    /\ ~ret.used_sources
    /\ ncalls >= 3

\* C11 as stated: the identifiers held by the set are pairwise distinct,
\* whatever list was passed to PackageSet::new.
C11_DistinctIds ==
  \A i, j \in 1..Len(packages) : i # j => packages[i].id # packages[j].id

\* A step in which a get is called, and one in which a download returns.
GetCalled == ncalls' = ncalls + 1
DownloadEnded == inflight # <<>> /\ inflight' = <<>>

InSet(id) == FindSlot(packages, id) # 0
Filled(id) == InSet(id) /\ IsSome(SlotOf(id))

\* C12: get(a) changes no slot and no count of another identifier ...
C12_Frame ==
  /\ \A i \in 1..Len(packages) :
       packages'[i].slot # packages[i].slot =>
         /\ inflight = <<packages[i].id>>
         /\ i = FindSlot(packages, packages[i].id)
  /\ \A b \in PackageIds :
       /\ downloads'[b] # downloads[b] => GetCalled /\ inflight' = <<b>>
       /\ failed'[b] # failed[b] => inflight = <<b>>
       /\ resolved'[b] # resolved[b] => ret'.id = <<b>>

\* ... what a get called on a set with no lookup in progress does is decided
\* by its own identifier's entry, slot and source alone ...
C12_Decides ==
  (GetCalled /\ inflight = <<>>) =>
    \E a \in PackageIds :
      /\ inflight' = <<a>> \/ (inflight' = <<>> /\ ret'.id = <<a>>)
      /\ IF ~InSet(a) THEN inflight' = <<>> /\ ret'.res = "no_package"
         ELSE IF Filled(a)
           THEN inflight' = <<>> /\ ret'.res = "ok" /\ ret'.pkg = SlotOf(a)
         ELSE IF a.source \notin sources
           THEN inflight' = <<>> /\ ret'.res = "no_source"
         ELSE inflight' = <<a>> /\ downloads'[a] = downloads[a] + 1

\* ... and the downloads of an identifier are its own failed attempts, the
\* one that filled its slot and the one in progress, so that neither the
\* Package held for it nor its download count depends on the order in which
\* distinct identifiers are resolved.
C12_OwnDownloads ==
  \A a \in PackageIds :
    /\ downloads[a] = failed[a] + (IF Filled(a) THEN 1 ELSE 0)
                                + (IF inflight = <<a>> THEN 1 ELSE 0)
    /\ Filled(a) => Unwrap(SlotOf(a)).id = a

C12_Independent == []C12_OwnDownloads /\ [][C12_Frame /\ C12_Decides]_vars

\* C12's case: two identifiers of one source were both resolved, one
\* download each.
C12_Witness ==
  \E a, b \in PackageIds :
    /\ a # b /\ a.source = b.source
    /\ Filled(a) /\ Filled(b)
    /\ resolved[a] = 1 /\ resolved[b] = 1
    /\ downloads[a] = 1 /\ downloads[b] = 1

\* The identifier of the get called in a GetCalled step: the call entered
\* a download, or it ended and left its identifier in ret.
CalledId == IF inflight' # inflight THEN inflight'[1] ELSE ret'.id[1]

\* What C18 says of a get of an absent identifier.
AbsentNotFound(id) ==
  ~InSet(id) =>
    /\ ret'.res = "no_package" /\ ~ret'.used_sources
    /\ UNCHANGED <<packages, sources, borrowed, inflight, downloads, failed,
                   resolved, panicked>>

\* What C18 says of a get whose identifier has no registered source.
NoSourceNotFound(id) ==
  /\ ret'.res = "no_source"
  /\ UNCHANGED <<packages, sources, borrowed, inflight, downloads, failed,
                 resolved, panicked>>

\* C18 as stated: a get of an absent identifier fails with the not-found
\* error without accessing the source map, and a get of an identifier in
\* the set whose slot is empty and whose source is not registered fails
\* with the not-found error without a download.
C18_NotFound ==
  [][GetCalled =>
       /\ AbsentNotFound(CalledId)
       /\ (InSet(CalledId) /\ ~Filled(CalledId) /\ CalledId.source \notin sources)
            => NoSourceNotFound(CalledId)]_vars

\* C18, amended: the same, the second case being that of a get called while
\* no download is running; called from inside a running download, a get of
\* an identifier in the set with an empty slot panics at borrow_mut before
\* the source is looked up, whether or not a source is registered.
C18_NotFoundUnlessBorrowed ==
  [][GetCalled =>
       /\ AbsentNotFound(CalledId)
       /\ (InSet(CalledId) /\ ~Filled(CalledId) /\ CalledId.source \notin sources
             /\ inflight = <<>>)
            => NoSourceNotFound(CalledId)
       /\ (InSet(CalledId) /\ ~Filled(CalledId) /\ inflight # <<>>)
            => /\ panicked' = "already_borrowed"
               /\ ret'.res = "panic" /\ ~ret'.used_sources
               /\ UNCHANGED <<packages, sources, borrowed, inflight, downloads,
                              failed, resolved>>]_vars

\* C18's case: a get of an identifier without a registered source, called
\* from inside a download, has panicked.
C18_Witness ==
  /\ panicked = "already_borrowed"
  /\ InSet(Unwrap(ret.id))
  /\ Unwrap(ret.id).source \notin sources

\* C18's other cases: the two not-found errors.
C18_WitnessAbsent ==
  ret.res = "no_package" /\ inflight # <<>> /\ panicked = "none"

C18_WitnessNoSource ==
  ret.res = "no_source" /\ sources # {} /\ \A id \in PackageIds : downloads[id] = 0

\* A step in which a get returns an error.
GetFailed ==
  /\ panicked' = panicked
  /\ (GetCalled /\ inflight' = inflight) \/ DownloadEnded
  /\ ret'.res \in {"no_package", "no_source", "download_failed"}

\* C19: a get that fails changes no slot and not the identifier list; a
\* get whose download fails made that one download attempt, leaves its
\* slot Empty and the source map released; and a later get of an identifier
\* whose download failed, called with no download running and the slot
\* still Empty, invokes download again.
C19_FailedGet ==
  [][/\ GetFailed =>
          /\ packages' = packages
          /\ sources' = sources
          /\ resolved' = resolved
          /\ ret'.pkg = <<>>
     /\ (GetFailed /\ DownloadEnded) =>
          LET id == inflight[1] IN
          /\ ret' = [id |-> Some(id), res |-> "download_failed", pkg |-> <<>>,
                     used_sources |-> TRUE]
          /\ SlotOf(id) = <<>>
          /\ downloads' = downloads
          /\ failed' = [failed EXCEPT ![id] = @ + 1]
          /\ downloads[id] = failed'[id]
          /\ ~borrowed'
     /\ (GetCalled /\ inflight = <<>> /\ failed[CalledId] >= 1 /\ ~Filled(CalledId)) =>
          /\ inflight' = <<CalledId>>
          /\ downloads' = [downloads EXCEPT ![CalledId] = @ + 1]]_vars

\* C19's case: a download of an identifier failed and a later get of it
\* downloaded again and filled the slot.
C19_Witness ==
  \E id \in PackageIds :
    /\ failed[id] = 1 /\ downloads[id] = 2
    /\ Filled(id)
    /\ ret = [id |-> Some(id), res |-> "ok", pkg |-> SlotOf(id), used_sources |-> TRUE]

\* C20: a get called while another get is inside its download never
\* obtains the source map, invokes no download and fills no slot: for an
\* identifier of the set with an empty slot, the same as the one being
\* downloaded or another, it panics at borrow_mut ...
C20_Step ==
  (GetCalled /\ inflight # <<>>) =>
    /\ UNCHANGED <<packages, sources, borrowed, inflight, downloads, failed>>
    /\ ~ret'.used_sources
    /\ (InSet(CalledId) /\ ~Filled(CalledId)) =>
         /\ panicked' = "already_borrowed"
         /\ resolved' = resolved

\* ... so the source map has one holder at most, the one download in
\* progress is that holder's, and no slot is offered a second Package.
C20_OneHolder ==
  /\ borrowed <=> inflight # <<>>
  /\ panicked # "fill_assert"
  /\ \A id \in PackageIds :
       /\ inflight = <<id>> => InSet(id) /\ ~Filled(id) /\ id.source \in sources
       /\ downloads[id] - failed[id] \in {0, 1}

C20_NoOverlap == []C20_OneHolder /\ [][C20_Step]_vars

\* C20's case: during the download of an identifier a second get of the
\* same identifier was called and panicked.
C20_Witness ==
  /\ panicked = "already_borrowed"
  /\ inflight = ret.id
  /\ downloads[Unwrap(inflight)] = 1
  /\ ~Filled(Unwrap(inflight))

\* C20's other case: the second get was for another unfilled identifier.
C20_WitnessOther ==
  /\ panicked = "already_borrowed"
  /\ inflight # ret.id
  /\ Unwrap(ret.id).source \in sources
  /\ downloads[Unwrap(ret.id)] = 0

\* ------------------------------------------------------------------------
\* Package::find_closest_target
\* ------------------------------------------------------------------------

\* Bound of the target model: the longest target list.
MaxTargets == 2

\* Names are sequences of characters.
N_s == <<"s">>
N_se == <<"s", "e">>
N_serv == <<"s", "e", "r", "v">>
N_serve == <<"s", "e", "r", "v", "e">>
N_server == <<"s", "e", "r", "v", "e", "r">>
N_client == <<"c", "l", "i", "e", "n", "t">>

TargetNames == {N_s, N_se, N_serv, N_server, N_client}
QueryNames == {N_serve, N_server}
TargetKinds == {"Bin", "Example"}
Targets == [name : TargetNames, kind : TargetKinds]
TargetLists == UNION { [1..n -> Targets] : n \in 0..MaxTargets }

Min2(a, b) == IF a <= b THEN a ELSE b

\* util::lev_distance: the Levenshtein distance of two names.
lev_distance(me, t) ==
  LET d[i \in 0..Len(me), j \in 0..Len(t)] ==
        IF i = 0 THEN j
        ELSE IF j = 0 THEN i
        ELSE IF me[i] = t[j] THEN d[i - 1, j - 1]
        ELSE Min2(Min2(d[i - 1, j - 1], d[i - 1, j]), d[i, j - 1]) + 1
  IN d[Len(me), Len(t)]

\* A threshold that lets distance 4 through.
DistanceLimit_Inclusive(d) == d <= 4

\* line 99: .filter(|&(d, _)| d < 4)
DistanceLimit(d) == d < 4

\* lines 97-99: the (distance, index) pairs of the targets of the kind whose
\* distance passes the filter, in target order.
RECURSIVE Matches(_, _, _, _)
Matches(ts, name, kind, i) ==
  IF i > Len(ts) THEN <<>>
  ELSE LET d == lev_distance(name, ts[i].name)
           rest == Matches(ts, name, kind, i + 1)
       IN IF ts[i].kind = kind /\ DistanceLimit(d)
          THEN <<[d |-> d, i |-> i]>> \o rest
          ELSE rest

\* A fold that keeps the last of several minimal elements.
MinStep_Last(best, x) == IF x.d <= best.d THEN x ELSE best

\* Iterator::min_by_key's fold step: a later element replaces the selected
\* one only when its key is strictly smaller.
MinStep(best, x) == IF x.d < best.d THEN x ELSE best

RECURSIVE MinFold(_, _, _)
MinFold(ms, best, k) ==
  IF k > Len(ms) THEN best ELSE MinFold(ms, MinStep(best, ms[k]), k + 1)

\* line 100: matches.min_by_key(|t| t.0).map(|t| t.1); the target is given
\* by its index in the target list.
find_closest_target(ts, name, kind) ==
  LET ms == Matches(ts, name, kind, 1)
  IN IF ms = <<>> THEN <<>> ELSE Some(MinFold(ms, ms[1], 2).i)

InitTarget ==
  /\ IdleSet
  /\ IdleReg
  /\ targets \in TargetLists
  /\ query \in [name : QueryNames, kind : TargetKinds]
  /\ closest = <<>>

FindClosestTarget ==
  /\ closest = <<>>
  /\ closest' = Some(find_closest_target(targets, query.name, query.kind))
  /\ UNCHANGED <<targets, query, setVars, regVars>>

NextTarget == FindClosestTarget

SpecTarget == InitTarget /\ [][NextTarget]_vars

\* The distance of target i to the queried name.
Dist(i) == lev_distance(query.name, targets[i].name)
\* The targets of the queried kind.
OfKind == { i \in 1..Len(targets) : targets[i].kind = query.kind }

\* C8: the result is a target of the kind at distance below 4, no target of
\* the kind is closer, no earlier one is as close, and the result is none
\* exactly when no target of the kind is at distance below 4.
C8_ClosestTarget ==
  closest # <<>> =>
    LET r == Unwrap(closest) IN
    /\ r = <<>> <=> ~\E j \in OfKind : Dist(j) < 4
    /\ r # <<>> =>
         LET i == Unwrap(r) IN
         /\ i \in OfKind
         /\ Dist(i) < 4
         /\ \A j \in OfKind : Dist(i) <= Dist(j)
         /\ \A j \in OfKind : j < i => Dist(j) > Dist(i)

\* C8's case: two targets of the kind tie at the minimal distance and the
\* first of them is returned.
C8_Witness ==
  /\ closest = Some(Some(1))
  /\ Len(targets) = 2
  /\ OfKind = {1, 2}
  /\ Dist(1) = Dist(2)

\* C8's other case: the only target of the kind is at distance 4, another
\* kind's target is closer, and none is returned.
C8_WitnessNone ==
  /\ closest = Some(<<>>)
  /\ \E j \in OfKind : Dist(j) = 4
  /\ \E j \in 1..Len(targets) : j \notin OfKind /\ Dist(j) < 4

\* ------------------------------------------------------------------------
\* Registry operations: configuration and the registry client
\* ------------------------------------------------------------------------

\* Option::or and Option::unwrap_or
\* An or that prefers its second argument.
OptOr_Second(a, b) == IF IsSome(b) THEN b ELSE a

OptOr(a, b) == IF IsSome(a) THEN a ELSE b
UnwrapOr(a, d) == IF IsSome(a) THEN Unwrap(a) ELSE d

\* CargoResult: Ok(()) and Err(message); who is what the message names.
Ok == [ok |-> TRUE, err |-> "", who |-> <<>>]
ErrOf(msg, who) == [ok |-> FALSE, err |-> msg, who |-> <<who>>]
Err(msg) == [ok |-> FALSE, err |-> msg, who |-> <<>>]

\* RegistrySource::default_url()
DefaultUrl == "https://default"
\* Index strings a user can give: two that parse as URLs and one that does not.
AltUrl == "https://alt"
CfgUrl == "https://cfg"
BadUrl == "not a url"

\* ToUrl::to_url: Err for a string that is no URL.
ToUrl(str) == IF str = BadUrl THEN <<>> ELSE Some([url |-> str])

\* SourceId::for_registry, SourceId::for_path and a git source; is_path.
ForRegistry(u) == [kind |-> "registry", url |-> u.url]
PathSource == [kind |-> "path", url |-> "/ws/dep"]
GitSource == [kind |-> "git", url |-> "https://git"]
IsPath(sid) == sid.kind = "path"

\* The Config values the registry operations read. Config::get_string is
\* taken to succeed: a stored value has the type it is read with.
Configs ==
  [ network_allowed : BOOLEAN,
    index : {<<>>, Some(CfgUrl)},
    token : {<<>>, Some("config-token")} ]

ExplicitTokens == {<<>>, Some("cli-token")}
ExplicitIndexes == {<<>>, Some(AltUrl), Some(BadUrl)}

\* registry_configuration (lines 154-158)
registry_configuration(cfg) == [index |-> cfg.index, token |-> cfg.token]

E_Frozen == "attempting to make an HTTP request, but --frozen was specified"

\* A handle built without asking whether the network is allowed.
http_handle_NoGate(cfg) == Ok

\* http_handle (lines 184-206): the network gate. The curl handle's
\* timeouts and proxy do not decide whether a handle is returned.
http_handle(cfg) ==
  IF ~cfg.network_allowed THEN Err(E_Frozen) ELSE Ok

\* registry (lines 160-181). upd and src_cfg say whether the registry
\* source's update() and config() succeed. The result carries the calls
\* made, in order, and on success the client's token and the source id.
registry(cfg, token, index, upd, src_cfg) ==
  LET rc == registry_configuration(cfg)
      tok == OptOr(token, rc.token)
      idx == UnwrapOr(OptOr(index, rc.index), DefaultUrl)
      url == ToUrl(idx)
  IN IF ~IsSome(url)
     THEN [res |-> Err("invalid url"), calls |-> <<>>]
     ELSE LET sid == ForRegistry(Unwrap(url))
              c1 == << <<"update", sid>> >>
              c2 == c1 \o << <<"src_config", sid>> >>
              h == http_handle(cfg)
          IN IF ~upd
             THEN [res |-> Err("failed to update registry"), calls |-> c1]
             ELSE IF ~src_cfg
             THEN [res |-> Err("registry config"), calls |-> c2]
             ELSE IF ~h.ok
             THEN [res |-> h, calls |-> c2]
             ELSE \* line 180: Registry::new_handle(api_host, token, handle),
                  \* the host being the one the source for sid configures
                  [res |-> Ok, sid |-> sid,
                   calls |-> c2 \o << <<"new_handle", [token |-> tok, api_host |-> sid]>> >>]

InitReg ==
  /\ IdleSet
  /\ IdleTarget
  /\ config \in Configs
  /\ cmd = [op |-> "idle"]
  /\ log = <<>>
  /\ result = <<>>

\* Whether the log holds an entry with the tag, and how many.
HasTag(l, tag) == \E i \in 1..Len(l) : l[i][1] = tag
Called(tag) == HasTag(log, tag)
Count(tag) == Cardinality({ i \in 1..Len(log) : log[i][1] = tag })
Tag(i) == log[i][1]

\* ------------------------------------------------------------------------
\* yank
\* ------------------------------------------------------------------------

E_NoVersion == "a version must be specified to yank"

\* The failure points of a yank run: which collaborator call fails first.
YankFails == {"none", "manifest", "update", "src_config", "yank"}

\* A yank that takes a default for a missing version.
YankVersion_Default(version) == [ok |-> TRUE, v |-> UnwrapOr(version, "latest")]

\* lines 350-353: the version, or the error for its absence.
YankVersion(version) ==
  IF IsSome(version) THEN [ok |-> TRUE, v |-> Unwrap(version)]
                     ELSE [ok |-> FALSE, v |-> ""]

\* yank (lines 336-370). fail names the first collaborator call that fails.
yank(cfg, krate, version, token, index, undo, fail) ==
  IF ~IsSome(krate) /\ fail = "manifest"
  THEN \* lines 345-346: no manifest to take the name from
       [res |-> Err("could not find Cargo.toml"), log |-> << <<"manifest", "err">> >>]
  ELSE
  LET l0 == IF IsSome(krate) THEN <<>> ELSE << <<"manifest", "ok">> >>
      name == UnwrapOr(krate, "ws-crate")
      ver == YankVersion(version)
  IN IF ~ver.ok
     THEN [res |-> Err(E_NoVersion), log |-> l0]
     ELSE
     LET v == ver.v
         r == registry(cfg, token, index, fail # "update", fail # "src_config")
         l1 == l0 \o r.calls
     IN IF ~r.res.ok THEN [res |-> r.res, log |-> l1]
        ELSE
        LET l2 == l1 \o << <<"status", <<IF undo THEN "Unyank" ELSE "Yank", name, v>> >>,
                           <<IF undo THEN "unyank" ELSE "yank", <<name, v>> >> >>
        IN IF fail = "yank"
           THEN [res |-> Err(IF undo THEN "failed to undo a yank" ELSE "failed to yank"),
                 log |-> l2]
           ELSE [res |-> Ok, log |-> l2]

Yank ==
  /\ cmd.op = "idle"
  /\ \E krate \in {<<>>, Some("foo")}, version \in {<<>>, Some("1.0.0")},
        token \in ExplicitTokens, index \in ExplicitIndexes,
        undo \in BOOLEAN, fail \in YankFails :
       LET r == yank(config, krate, version, token, index, undo, fail) IN
       /\ cmd' = [op |-> "yank", krate |-> krate, version |-> version,
                  token |-> token, index |-> index, undo |-> undo]
       /\ log' = r.log
       /\ result' = r.res
  /\ UNCHANGED <<config, setVars, targetVars>>

\* ------------------------------------------------------------------------
\* modify_owners
\* ------------------------------------------------------------------------

\* Bound of the owners model: the longest list the registry returns.
MaxOwners == 2

\* The registry's users: login with optional display name and email.
Owners == { [login |-> "o1", name |-> Some("A"), email |-> Some("a@x")],
            [login |-> "o2", name |-> Some("B"), email |-> <<>>],
            [login |-> "o3", name |-> <<>>, email |-> Some("c@x")],
            [login |-> "o4", name |-> <<>>, email |-> <<>>] }
OwnerLists == UNION { [1..n -> Owners] : n \in 0..MaxOwners }

\* A listing that prints the login only.
OwnerLine_Login(owner) == <<owner.login>>

\* lines 323-329: the line printed for one owner, as the pieces written.
OwnerLine(owner) ==
  IF IsSome(owner.name) /\ IsSome(owner.email)
    THEN <<owner.login, " (", Unwrap(owner.name), " <", Unwrap(owner.email), ">)">>
  ELSE IF IsSome(owner.name)
    THEN <<owner.login, " (", Unwrap(owner.name), ")">>
  ELSE IF IsSome(owner.email)
    THEN <<owner.login, " (", Unwrap(owner.email), ")">>
  ELSE <<owner.login>>

\* lines 322-330: one line per owner, in the order of the response.
OwnerLines(owners) == [i \in 1..Len(owners) |-> <<"print", OwnerLine(owners[i])>>]

OwnerFails == {"none", "manifest", "update", "src_config", "add", "remove", "list"}

\* A modify_owners that goes on although add_owners failed.
AddFailed_Ignored(opts, fail) == FALSE

\* lines 299-301: add_owners was called and returned an error
AddFailed(opts, fail) == IsSome(opts.to_add) /\ fail = "add"

\* lines 311-313: remove_owners was called and returned an error
RemoveFailed(opts, fail) == IsSome(opts.to_remove) /\ fail = "remove"

\* The outcome a registry call is logged with.
Outcome(failed_call) == IF failed_call THEN "err" ELSE "ok"

\* modify_owners (lines 281-334). fail names the first call of a
\* collaborator that fails, owners is what list_owners returns.
modify_owners(cfg, opts, fail, owners) ==
  IF ~IsSome(opts.krate) /\ fail = "manifest"
  THEN \* lines 285-286
       [res |-> Err("could not find Cargo.toml"), log |-> << <<"manifest", "err">> >>]
  ELSE
  LET l0 == IF IsSome(opts.krate) THEN <<>> ELSE << <<"manifest", "ok">> >>
      name == UnwrapOr(opts.krate, "ws-crate")
      r == registry(cfg, opts.token, opts.index, fail # "update", fail # "src_config")
      l1 == l0 \o r.calls
  IN IF ~r.res.ok THEN [res |-> r.res, log |-> l1]
     ELSE
     LET \* lines 294-304
         l2 == IF IsSome(opts.to_add)
               THEN l1 \o << <<"status", <<"Owner", "adding", Unwrap(opts.to_add), name>> >>,
                              <<"add_owners", <<name, Unwrap(opts.to_add),
                                               Outcome(fail = "add")>> >> >>
               ELSE l1
         \* lines 306-316
         l3 == IF IsSome(opts.to_remove)
               THEN l2 \o << <<"status", <<"Owner", "removing", Unwrap(opts.to_remove), name>> >>,
                              <<"remove_owners", <<name, Unwrap(opts.to_remove),
                                                  Outcome(fail = "remove")>> >> >>
               ELSE l2
         \* lines 318-321
         l4 == l3 \o << <<"list_owners", <<name, Outcome(fail = "list")>> >> >>
     IN IF AddFailed(opts, fail)
        THEN [res |-> ErrOf("failed to add owners to crate", name), log |-> l2]
        ELSE IF RemoveFailed(opts, fail)
        THEN [res |-> ErrOf("failed to remove owners from crate", name), log |-> l3]
        ELSE IF ~opts.list
        THEN [res |-> Ok, log |-> l3]
        ELSE IF fail = "list"
        THEN [res |-> ErrOf("failed to list owners of crate", name), log |-> l4]
        ELSE [res |-> Ok, log |-> l4 \o OwnerLines(owners)]

ModifyOwners ==
  /\ cmd.op = "idle"
  /\ \E krate \in {<<>>, Some("foo")}, token \in ExplicitTokens,
        index \in ExplicitIndexes, to_add \in {<<>>, Some(<<"u1">>)},
        to_remove \in {<<>>, Some(<<"u2">>)}, list \in BOOLEAN,
        fail \in OwnerFails :
     \E owners \in IF fail = "none" /\ list THEN OwnerLists ELSE {<<>>} :
       LET opts == [krate |-> krate, token |-> token, index |-> index,
                    to_add |-> to_add, to_remove |-> to_remove, list |-> list]
           r == modify_owners(config, opts, fail, owners) IN
       /\ cmd' = [op |-> "owners", opts |-> opts,
                  response |-> IF HasTag(r.log, "list_owners") /\ r.res.ok
                               THEN Some(owners) ELSE <<>>]
       /\ log' = r.log
       /\ result' = r.res
  /\ UNCHANGED <<config, setVars, targetVars>>

\* ------------------------------------------------------------------------
\* publish, verify_dependencies, transmit
\* ------------------------------------------------------------------------

\* Bound of the publish model: the longest dependency list.
MaxDeps == 2

\* What a dependency can be: every (source, specified_req) case that
\* verify_dependencies tells apart, over the three kinds.
DepAttrs ==
  { [source |-> PathSource, specified_req |-> TRUE, kind |-> "Normal"],
    [source |-> PathSource, specified_req |-> FALSE, kind |-> "Build"],
    [source |-> ForRegistry([url |-> DefaultUrl]), specified_req |-> TRUE,
     kind |-> "Development"],
    [source |-> ForRegistry([url |-> DefaultUrl]), specified_req |-> FALSE,
     kind |-> "Build"],
    [source |-> ForRegistry([url |-> AltUrl]), specified_req |-> FALSE,
     kind |-> "Normal"],
    [source |-> GitSource, specified_req |-> TRUE, kind |-> "Development"] }

\* A dependency list: the i-th dependency is named i.
Dep(a, i) == [name |-> i, source |-> a.source,
              specified_req |-> a.specified_req, kind |-> a.kind]
DepLists ==
  UNION { { [i \in 1..n |-> Dep(as[i], i)] : as \in [1..n -> DepAttrs] }
          : n \in 0..MaxDeps }

\* The workspace's current package: the manifest fields publish reads.
WsPackages ==
  [ name : {"foo"},
    publish : BOOLEAN,
    deps : DepLists,
    readme : {<<>>, Some("README.md")},
    license_file : {<<>>, Some("LICENSE")} ]

E_PathDep == "all path dependencies must have a version specified when publishing"
E_OtherSource == "all dependencies must come from the same source"

\* A check that takes a path dependency with or without a version.
PathDepOk_Always(dep) == TRUE

\* line 77: a path dependency must specify its version requirement.
PathDepOk(dep) == dep.specified_req

\* verify_dependencies (lines 73-89): the loop from dependency i on.
RECURSIVE verify_dependencies_from(_, _, _)
verify_dependencies_from(deps, registry_src, i) ==
  IF i > Len(deps) THEN Ok
  ELSE IF IsPath(deps[i].source)
  THEN IF ~PathDepOk(deps[i])
       THEN ErrOf(E_PathDep, deps[i].name)
       ELSE verify_dependencies_from(deps, registry_src, i + 1)
  ELSE IF deps[i].source # registry_src
  THEN ErrOf(E_OtherSource, deps[i].name)
  ELSE verify_dependencies_from(deps, registry_src, i + 1)

verify_dependencies(pkg, registry_src) ==
  verify_dependencies_from(pkg.deps, registry_src, 1)

\* A tag table that sends Development to "development".
KindTag_Long(kind) ==
  IF kind = "Normal" THEN "normal"
  ELSE IF kind = "Build" THEN "build" ELSE "development"

\* lines 104-108: the wire tag of a dependency kind.
KindTag(kind) ==
  IF kind = "Normal" THEN "normal"
  ELSE IF kind = "Build" THEN "build" ELSE "dev"

\* lines 96-110: one NewCrateDependency per dependency, in order. The
\* fields copied unchanged besides the name are left out.
NewCrateDeps(deps) ==
  [i \in 1..Len(deps) |-> [name |-> deps[i].name, kind |-> KindTag(deps[i].kind)]]

E_NoLicense == "the license file does not exist"
W_DryRun == "aborting upload due to dry run"

\* A transmit that uploads on a dry run as well.
IsDryRun_Never(dry_run) == FALSE

\* line 130: if dry_run
IsDryRun(dry_run) == dry_run

\* transmit (lines 91-152). fail names the first collaborator call that
\* fails: reading the readme, finding the license file, the upload.
\* A transmit that goes on although the license file is missing.
LicenseFileMissing_Ignored(file, fail) == FALSE

\* lines 120-127: a license file is declared and fs::metadata fails on it
LicenseFileMissing(file, fail) == IsSome(file) /\ fail = "license"

transmit(pkg, dry_run, fail) ==
  LET deps == NewCrateDeps(pkg.deps)
      l1 == IF IsSome(pkg.readme)
            THEN << <<"read_readme", IF fail = "readme" THEN "err" ELSE "ok">> >>
            ELSE <<>>
      l2 == l1 \o (IF IsSome(pkg.license_file)
                   THEN << <<"stat_license", IF fail = "license" THEN "err" ELSE "ok">> >>
                   ELSE <<>>)
      crate == [name |-> pkg.name, deps |-> deps, readme |-> pkg.readme,
                license_file |-> pkg.license_file]
  IN IF IsSome(pkg.readme) /\ fail = "readme"
     THEN [res |-> Err("failed to read the readme"), log |-> l1]
     ELSE IF LicenseFileMissing(pkg.license_file, fail)
     THEN [res |-> ErrOf(E_NoLicense, Unwrap(pkg.license_file)), log |-> l2]
     ELSE IF IsDryRun(dry_run)
     THEN [res |-> Ok, log |-> l2 \o << <<"warn", W_DryRun>> >>]
     ELSE IF fail = "publish"
     THEN [res |-> Err("upload failed"), log |-> l2 \o << <<"publish", crate>> >>]
     ELSE [res |-> Ok, log |-> l2 \o << <<"publish", crate>> >>]

PublishFails == {"none", "workspace", "update", "src_config", "package",
                 "readme", "license", "publish"}

E_Unpublishable == "some crates cannot be published"

\* A publish that does not look at the manifest's publish flag.
Publishable_Always(pkg) == TRUE

\* line 45: pkg.publish()
Publishable(pkg) == pkg.publish

\* publish (lines 42-71). fail names the first collaborator call that fails.
publish(cfg, pkg, opts, fail) ==
  IF fail = "workspace"
  THEN [res |-> Err("no current package"), log |-> <<>>]   \* line 43
  ELSE IF ~Publishable(pkg)
  THEN [res |-> ErrOf(E_Unpublishable, pkg.name), log |-> <<>>]
  ELSE
  LET r == registry(cfg, opts.token, opts.index, fail # "update", fail # "src_config")
  IN IF ~r.res.ok THEN [res |-> r.res, log |-> r.calls]
     ELSE
     LET v == verify_dependencies(pkg, r.sid)
         l1 == r.calls \o << <<"verify", IF v.ok THEN "ok" ELSE "err">> >>
         l2 == l1 \o << <<"package", IF fail = "package" THEN "err" ELSE "ok">> >>
         l3 == l2 \o << <<"status", <<"Uploading", pkg.name>> >> >>
         t == transmit(pkg, opts.dry_run, fail)
     IN IF ~v.ok THEN [res |-> v, log |-> l1]
        ELSE IF fail = "package" THEN [res |-> Err("failed to package"), log |-> l2]
        ELSE [res |-> t.res, log |-> l3 \o t.log]

Publish ==
  /\ cmd.op = "idle"
  /\ \E pkg \in WsPackages, token \in ExplicitTokens, index \in ExplicitIndexes,
        dry_run \in BOOLEAN, fail \in PublishFails :
       LET opts == [token |-> token, index |-> index, dry_run |-> dry_run]
           r == publish(config, pkg, opts, fail) IN
       /\ cmd' = [op |-> "publish", pkg |-> pkg, opts |-> opts]
       /\ log' = r.log
       /\ result' = r.res
  /\ UNCHANGED <<config, setVars, targetVars>>

\* ------------------------------------------------------------------------
\* search
\* ------------------------------------------------------------------------

\* Bound of the search model: the longest query.
MaxQuery == 2

\* Strings are sequences of characters; a character's width is its length
\* in UTF-8 bytes. str::len and str slices count bytes.
Width(c) == IF c = "e-acute" THEN 2 ELSE IF c = "ellipsis" THEN 3 ELSE 1

\* str::len: the bytes of a string.
ByteLen(str) ==
  Len(str) + Cardinality({ i \in 1..Len(str) : Width(str[i]) = 2 })
           + 2 * Cardinality({ i \in 1..Len(str) : Width(str[i]) = 3 })

\* &s[..n] for n <= s.len(): the characters that fill the first n bytes;
\* not ok (the slice panics) when byte n is inside a character.
SliceTo(str, n) ==
  LET ks == { k \in 0..Len(str) : k <= n /\ 2 * k >= n
                                  /\ ByteLen(SubSeq(str, 1, k)) = n }
  IN IF ks = {} THEN [ok |-> FALSE, str |-> <<>>]
     ELSE [ok |-> TRUE, str |-> SubSeq(str, 1, CHOOSE k \in ks : TRUE)]

\* desc.replace("\n", " ")
ReplaceNewlines(str) == [i \in 1..Len(str) |-> IF str[i] = "\n" THEN " " ELSE str[i]]

\* A cut that keeps max_length bytes before the ellipsis.
CutAt_Full(max_length) == max_length

\* line 380: &s[..max_length - 1]
CutAt(max_length) == max_length - 1

\* truncate_with_ellipsis (lines 376-382)
truncate_with_ellipsis(str, max_length) ==
  IF ByteLen(str) < max_length
  THEN [ok |-> TRUE, str |-> str]
  ELSE LET cut == SliceTo(str, CutAt(max_length))
       IN [ok |-> cut.ok, str |-> IF cut.ok THEN cut.str \o <<"ellipsis">> ELSE <<>>]

\* line 393: the length descriptions are cut to
DescriptionMax == 128
\* line 413
search_max_limit == 100

\* percent_encode(query.as_bytes(), QUERY_ENCODE_SET): the characters
\* of the set (space, ", #, <, >) become %XX.
PercentEncodeChar(c) ==
  IF c = " " THEN <<"%", "2", "0">>
  ELSE IF c = "#" THEN <<"%", "2", "3">>
  ELSE <<c>>
RECURSIVE percent_encode(_)
percent_encode(str) ==
  IF str = <<>> THEN <<>>
  ELSE PercentEncodeChar(Head(str)) \o percent_encode(Tail(str))

\* Descriptions a registry can return: n characters "a", with a newline or
\* a two-byte character at one place.
Desc(n, nl, wide) ==
  [i \in 1..n |-> IF i = nl THEN "\n" ELSE IF i = wide THEN "e-acute" ELSE "a"]
DescLengths == {50, 127, 128, 129, 200}
Descriptions ==
  { Desc(n, 0, 0) : n \in DescLengths }
  \cup { Desc(n, p, 0) : n \in DescLengths, p \in {1, 128} }
  \cup { Desc(n, 0, p) : n \in DescLengths, p \in {1, 127, 128} }

Crate(name, d) == [name |-> name, max_version |-> <<"1", ".", "0">>, description |-> d]
\* The rows of a search response.
CrateLists ==
  { <<>>, <<Crate(<<"x">>, <<>>)>> }
  \cup { <<Crate(<<"x">>, Some(d))>> : d \in Descriptions }
  \cup { <<Crate(<<"x", "y", "z">>, Some(Desc(50, 1, 0))), Crate(<<"x">>, Some(d))>>
         : d \in {Desc(128, 0, 0), Desc(200, 0, 127)} }

QueryChars == {"a", " "}
Queries == UNION { [1..n -> QueryChars] : n \in 0..MaxQuery }
\* limit is a u8, the total a u32.
Limits == {0, 50, 99, 100, 255}
Totals == {0, 50, 100, 150, 300}

\* line 393 for each description a response can hold, computed once.
CutDescriptions ==
  [d \in Descriptions |->
     truncate_with_ellipsis(ReplaceNewlines(d), DescriptionMax)]

\* lines 389-395: the label and the cut description of each row.
ListItems(crates) ==
  [i \in 1..Len(crates) |->
     [label |-> crates[i].name \o <<" ", "(">> \o crates[i].max_version \o <<")">>,
      desc |-> IF IsSome(crates[i].description)
               THEN Some(CutDescriptions[Unwrap(crates[i].description)])
               ELSE <<>>]]

\* lines 396-399: the widest label plus 4, 0 without rows.
RECURSIVE MaxMargin(_, _)
MaxMargin(items, i) ==
  IF i > Len(items) THEN 0
  ELSE LET m == Len(items[i].label) + 4
           r == MaxMargin(items, i + 1)
       IN IF m >= r THEN m ELSE r

\* lines 401-411: the line said for each row.
RowLines(items) ==
  LET margin == MaxMargin(items, 1)
  IN [i \in 1..Len(items) |->
       <<"say", [label |-> items[i].label,
                 pad |-> IF IsSome(items[i].desc)
                         THEN margin - Len(items[i].label) ELSE 0,
                 desc |-> IF IsSome(items[i].desc)
                          THEN Some(Unwrap(items[i].desc).str) ELSE <<>>]>>]

\* The hint chosen when the limit is compared with <= instead of <.
HintKind_Inclusive(total, limit) ==
  IF total > limit /\ limit <= search_max_limit THEN "limit"
  ELSE IF total > limit /\ limit > search_max_limit THEN "web"
  ELSE "none"

\* lines 414 and 420: which hint follows the rows.
HintKind(total, limit) ==
  IF total > limit /\ limit < search_max_limit THEN "limit"
  ELSE IF total > limit /\ limit >= search_max_limit THEN "web"
  ELSE "none"

\* lines 413-429: the hint said after the rows.
Hint(q, total, limit) ==
  LET k == HintKind(total, limit)
  IN IF k = "limit"
     THEN << <<"hint", [kind |-> "limit", more |-> total - limit, q |-> <<>>]>> >>
     ELSE IF k = "web"
     THEN << <<"hint", [kind |-> "web", more |-> total - limit,
                        q |-> percent_encode(q)]>> >>
     ELSE <<>>

E_SlicePanic == "panic: byte index is not a char boundary"

SearchFails == {"none", "update", "src_config", "search"}

\* search (lines 372-432). fail names the first collaborator call that
\* fails; crates and total are the registry's response.
search(cfg, q, index, limit, fail, crates, total) ==
  LET r == registry(cfg, <<>>, index, fail # "update", fail # "src_config")
  IN IF ~r.res.ok THEN [res |-> r.res, log |-> r.calls]
     ELSE
     LET l1 == r.calls \o << <<"search", [q |-> q, limit |-> limit]>> >>
         items == ListItems(crates)
     IN IF fail = "search"
        THEN [res |-> Err("failed to retrieve search results from the registry"),
              log |-> l1]
        ELSE IF \E i \in 1..Len(items) : IsSome(items[i].desc) /\ ~Unwrap(items[i].desc).ok
        THEN [res |-> Err(E_SlicePanic), log |-> l1]
        ELSE [res |-> Ok, log |-> l1 \o RowLines(items) \o Hint(q, total, limit)]

Search ==
  /\ cmd.op = "idle"
  /\ \E q \in Queries, index \in ExplicitIndexes, limit \in Limits,
        fail \in SearchFails :
     \E crates \in IF fail = "none" THEN CrateLists ELSE {<<>>},
        total \in IF fail = "none" THEN Totals ELSE {0} :
       LET r == search(config, q, index, limit, fail, crates, total) IN
       /\ cmd' = [op |-> "search", query |-> q, index |-> index, limit |-> limit,
                  response |-> IF HasTag(r.log, "search") /\ fail # "search"
                               THEN Some([crates |-> crates, total |-> total])
                               ELSE <<>>]
       /\ log' = r.log
       /\ result' = r.res
  /\ UNCHANGED <<config, setVars, targetVars>>

NextReg == Yank \/ ModifyOwners \/ Publish \/ Search

SpecReg == InitReg /\ [][NextReg]_vars

\* C5 as stated: a yank without a version fails with the version message.
C5_NoVersionMessage ==
  (cmd.op = "yank" /\ ~IsSome(cmd.version)) => result = Err(E_NoVersion)

\* C5, amended: a yank without a version fails, for either value of undo,
\* without resolving the registry client, reporting a status line or
\* calling yank or unyank; the message is the version message whenever the
\* crate name was given or could be read from the workspace manifest.
C5_NoVersionFails ==
  (cmd.op = "yank" /\ ~IsSome(cmd.version)) =>
    /\ ~result.ok
    /\ ~Called("update") /\ ~Called("src_config")
    /\ ~Called("status") /\ ~Called("yank") /\ ~Called("unyank")
    /\ (IsSome(cmd.krate) \/ log = << <<"manifest", "ok">> >>)
         => result = Err(E_NoVersion)
    /\ result # Err(E_NoVersion) => log = << <<"manifest", "err">> >>

\* C5's case: an undo yank of a named crate without a version.
C5_Witness ==
  /\ cmd.op = "yank" /\ ~IsSome(cmd.version) /\ cmd.undo /\ IsSome(cmd.krate)
  /\ result = Err(E_NoVersion)
  /\ config.network_allowed

\* C9 as stated: with network access forbidden the registry client's
\* resolution fails with the network-disabled error, update() is not
\* invoked, and no publish, yank, owner or search call follows.
C9_FrozenNoRequest ==
  (cmd.op # "idle" /\ ~config.network_allowed) =>
    /\ ~result.ok
    /\ ~Called("update")
    /\ \A t \in {"publish", "yank", "unyank", "add_owners", "remove_owners",
                  "list_owners", "search"} : ~Called(t)

\* ---- publish

\* The run reached verify_dependencies, resp. transmit.
VerifyRan == cmd.op = "publish" /\ Called("verify")
TransmitRan == cmd.op = "publish" /\ Called("status")
\* A log entry with the tag and the outcome.
Logged(tag, out) == \E i \in 1..Len(log) : log[i][1] = tag /\ log[i][2] = out
\* The registry source id verify_dependencies was given: that of update().
RegistrySid == log[1][2]

\* The dependency is one the claim calls offending.
Offending(dep, sid) ==
  \/ dep.source.kind = "path" /\ ~dep.specified_req
  \/ dep.source.kind # "path" /\ dep.source # sid

\* C2: verify_dependencies fails exactly when some dependency is a path
\* dependency without a specified version or a non-path dependency of
\* another source than the registry, and the error names the first such
\* dependency of the list.
C2_VerifyDependencies ==
  VerifyRan =>
    LET deps == cmd.pkg.deps
        bad == { i \in 1..Len(deps) : Offending(deps[i], RegistrySid) }
    IN /\ Logged("verify", "err") <=> bad # {}
       /\ Logged("verify", "ok") <=> bad = {}
       /\ bad # {} =>
            LET f == CHOOSE i \in bad : \A j \in bad : i <= j IN
            /\ result.who = <<deps[f].name>>
            /\ result.err = IF deps[f].source.kind = "path"
                            THEN E_PathDep ELSE E_OtherSource
            /\ ~Called("package") /\ ~Called("publish")

\* C2's case: the first dependency is a path dependency with a version and
\* is accepted, the second comes from another registry and is the one named.
C2_Witness ==
  /\ VerifyRan
  /\ Len(cmd.pkg.deps) = 2
  /\ cmd.pkg.deps[1].source.kind = "path" /\ cmd.pkg.deps[1].specified_req
  /\ cmd.pkg.deps[2].source.kind = "registry"
  /\ result = ErrOf(E_OtherSource, 2)

\* The readme could be read and the license file was found, where declared.
ChecksPass == ~Logged("read_readme", "err") /\ ~Logged("stat_license", "err")

\* C3 as stated: a transmit with dry_run set makes no publish call and
\* returns success after the warning.
C3_DryRunSucceeds ==
  (TransmitRan /\ cmd.opts.dry_run) =>
    /\ ~Called("publish")
    /\ result = Ok
    /\ log[Len(log)] = <<"warn", W_DryRun>>

\* C3, amended: a transmit with dry_run set never makes the publish call;
\* when the readme and license-file checks pass it returns success after
\* emitting the warning once, and when one of them fails it returns the
\* error without the warning.
C3_DryRunNoUpload ==
  (TransmitRan /\ cmd.opts.dry_run) =>
    /\ ~Called("publish")
    /\ ChecksPass =>
         /\ result = Ok
         /\ log[Len(log)][1] = "warn" /\ log[Len(log)][2] = W_DryRun
         /\ Count("warn") = 1
    /\ ~ChecksPass => ~result.ok /\ ~Called("warn")

\* C3's case: a dry run of a package with a readme and a license file
\* that are both there.
C3_Witness ==
  /\ TransmitRan /\ cmd.opts.dry_run
  /\ IsSome(cmd.pkg.readme) /\ IsSome(cmd.pkg.license_file)
  /\ ChecksPass
  /\ result = Ok
  /\ Called("warn")

\* The wire tag the claim gives for a kind.
ClaimedTag(kind) ==
  CASE kind = "Normal" -> "normal"
    [] kind = "Build" -> "build"
    [] kind = "Development" -> "dev"

\* C4: without dry_run and with the checks passed, transmit makes exactly
\* one publish call, as its last step whether or not the call fails, and
\* the payload has one record per dependency, in order, with the tag of
\* the dependency's kind.
C4_OneUpload ==
  (TransmitRan /\ ~cmd.opts.dry_run /\ ChecksPass) =>
    /\ Count("publish") = 1
    /\ log[Len(log)][1] = "publish"
    /\ LET sent == log[Len(log)][2].deps
           deps == cmd.pkg.deps
       IN /\ Len(sent) = Len(deps)
          /\ \A i \in 1..Len(deps) :
               /\ sent[i].name = deps[i].name
               /\ sent[i].kind = ClaimedTag(deps[i].kind)

\* C4's case: the upload of a package with a Development and a Build
\* dependency fails, after one call.
C4_Witness ==
  /\ TransmitRan /\ ~cmd.opts.dry_run /\ ChecksPass
  /\ ~result.ok
  /\ Count("publish") = 1
  /\ Len(cmd.pkg.deps) = 2
  /\ cmd.pkg.deps[1].kind = "Development" /\ cmd.pkg.deps[2].kind = "Build"

\* ---- search

\* The registry answered the search call.
Answered == cmd.op = "search" /\ IsSome(cmd.response)
Rows == Unwrap(cmd.response).crates
Total == Unwrap(cmd.response).total
IsSay(e) == e[1] = "say"
IsHint(e) == e[1] = "hint"
Said == SelectSeq(log, IsSay)
Hints == SelectSeq(log, IsHint)
\* Row i's description with its newlines replaced.
Flat(i) == ReplaceNewlines(Unwrap(Rows[i].description))

\* C6 as stated: a description of more than 128 characters is printed as
\* its first 128 characters and one ellipsis marker, any other unchanged,
\* newlines replaced by spaces.
C6_TruncateAbove128 ==
  Answered =>
    /\ result.ok
    /\ Len(Said) = Len(Rows)
    /\ \A i \in 1..Len(Rows) :
         IsSome(Rows[i].description) =>
           Said[i][2].desc =
             Some(IF Len(Flat(i)) > 128
                  THEN SubSeq(Flat(i), 1, 128) \o <<"ellipsis">>
                  ELSE Flat(i))

\* For each description: whether it has 128 bytes or more and byte 127
\* is inside a character, and else the form the amended claim gives it.
C6_Expected ==
  [d \in Descriptions |->
     LET flat == ReplaceNewlines(d)
         long == ByteLen(flat) >= 128
         cut == SliceTo(flat, 127)
     IN [inside |-> long /\ ~cut.ok,
         str |-> IF long THEN cut.str \o <<"ellipsis">> ELSE flat]]

\* Row i's description is long enough to be cut, and the cut at byte 127
\* falls inside a character.
CutInsideChar(i) ==
  /\ IsSome(Rows[i].description)
  /\ C6_Expected[Unwrap(Rows[i].description)].inside

\* C6, amended: lengths are in bytes. A description of 128 bytes or more,
\* newlines replaced by spaces, is printed as its first 127 bytes and one
\* ellipsis marker; a shorter one is printed unchanged but for the
\* newlines. When byte 127 of a description of 128 bytes or more is inside
\* a multi-byte character, search panics and prints no row at all.
C6_TruncateAt127Bytes ==
  Answered =>
    IF \E i \in 1..Len(Rows) : CutInsideChar(i)
    THEN result = Err(E_SlicePanic) /\ Said = <<>>
    ELSE /\ result.ok
         /\ Len(Said) = Len(Rows)
         /\ \A i \in 1..Len(Rows) :
              IsSome(Rows[i].description) =>
                Said[i][2].desc =
                  Some(C6_Expected[Unwrap(Rows[i].description)].str)

\* C6's case: a description of exactly 128 characters that starts with a
\* newline is printed as a space, 126 more characters and the marker.
C6_Witness ==
  /\ Answered /\ result.ok
  /\ Len(Rows) = 1 /\ IsSome(Rows[1].description)
  /\ Len(Unwrap(Rows[1].description)) = 128
  /\ Unwrap(Rows[1].description)[1] = "\n"
  /\ Len(Unwrap(Said[1][2].desc)) = 128
  /\ Unwrap(Said[1][2].desc)[1] = " "
  /\ Unwrap(Said[1][2].desc)[128] = "ellipsis"

\* The spaces of a string.
Spaces(str) == Cardinality({ i \in 1..Len(str) : str[i] = " " })

\* C7: once the rows are printed, no hint follows when total <= limit; one
\* "use --limit" hint when total > limit and limit < 100; one web-search
\* hint, with the query percent-encoded, when total > limit and
\* limit >= 100; the hint reports total - limit.
C7_SearchHint ==
  (Answered /\ result.ok) =>
    LET limit == cmd.limit IN
    /\ Len(Hints) <= 1
    /\ Total <= limit => Hints = <<>>
    /\ Total > limit =>
         /\ Len(Hints) = 1
         /\ log[Len(log)] = Hints[1]
         /\ Hints[1][2].more = Total - limit
         /\ Hints[1][2].kind = IF limit < 100 THEN "limit" ELSE "web"
         /\ limit >= 100 =>
              LET e == Hints[1][2].q IN
              /\ Spaces(e) = 0
              /\ Len(e) = Len(cmd.query) + 2 * Spaces(cmd.query)
              /\ Spaces(cmd.query) = 0 => e = cmd.query
              /\ cmd.query = <<"a", " ">> => e = <<"a", "%", "2", "0">>

\* C7's case: limit 100, a larger total and a query with a space.
C7_Witness ==
  /\ Answered /\ result.ok
  /\ cmd.limit = 100 /\ Total = 150
  /\ cmd.query = <<"a", " ">>
  /\ Len(Hints) = 1 /\ Hints[1][2].kind = "web"
  /\ Len(Rows) = 2

\* The explicit token and index the command passed to registry.
CmdToken ==
  IF cmd.op = "yank" THEN cmd.token
  ELSE IF cmd.op \in {"publish", "owners"} THEN cmd.opts.token
  ELSE <<>>
CmdIndex ==
  IF cmd.op \in {"publish", "owners"} THEN cmd.opts.index ELSE cmd.index

\* C14: the client is built with the explicit token when given, else the
\* configured one, else none; the registry source that is updated, the one
\* the client's host is read from and the source identifier returned are
\* those of the explicit index when given, else the configured index, else
\* the default URL.
C14_Precedence ==
  LET tok == IF IsSome(CmdToken) THEN CmdToken ELSE config.token
      idx == IF IsSome(CmdIndex) THEN Unwrap(CmdIndex)
             ELSE IF IsSome(config.index) THEN Unwrap(config.index)
             ELSE DefaultUrl
      sid == [kind |-> "registry", url |-> idx]
  IN cmd.op # "idle" =>
       /\ \A i \in 1..Len(log) :
            /\ log[i][1] \in {"update", "src_config"} =>
                 idx # BadUrl /\ log[i][2] = sid
            /\ log[i][1] = "new_handle" =>
                 /\ log[i][2] = [token |-> tok, api_host |-> sid]
                 /\ registry(config, CmdToken, CmdIndex, TRUE, TRUE).sid = sid
       /\ (cmd.op = "publish" /\ VerifyRan /\ ~result.ok /\ result.err = E_OtherSource) =>
            cmd.pkg.deps[Unwrap(result.who)].source # sid

\* C14's case: explicit token and index given while both are configured.
C14_Witness ==
  /\ cmd.op = "yank"
  /\ cmd.token = Some("cli-token") /\ config.token = Some("config-token")
  /\ cmd.index = Some(AltUrl) /\ config.index = Some(CfgUrl)
  /\ Called("new_handle")
  /\ result.ok

\* C14's other cases: the configured values are used when nothing explicit
\* is given, and the default URL when no index is configured either.
C14_WitnessConfig ==
  /\ cmd.op = "publish"
  /\ cmd.opts.token = <<>> /\ config.token = Some("config-token")
  /\ cmd.opts.index = <<>> /\ config.index = Some(CfgUrl)
  /\ Called("new_handle")

C14_WitnessDefault ==
  /\ cmd.op = "search"
  /\ cmd.index = <<>> /\ config.index = <<>> /\ config.token = <<>>
  /\ Called("new_handle")

\* The place of a log entry in publish's order of steps.
StepRank(tag) ==
  CASE tag = "update" -> 1
    [] tag = "src_config" -> 2
    [] tag = "new_handle" -> 3
    [] tag = "verify" -> 4
    [] tag = "package" -> 5
    [] tag = "status" -> 6
    [] tag = "read_readme" -> 7
    [] tag = "stat_license" -> 8
    [] tag \in {"warn", "publish"} -> 9

\* C16: publish's steps happen in the order publishable check, registry
\* resolution, verify_dependencies, packaging, "Uploading" status, transmit;
\* a step that fails is the last one made and fails the command; an
\* unpublishable package fails before the registry is touched; the publish
\* call is made only after all the steps before it succeeded.
C16_PublishOrder ==
  cmd.op = "publish" =>
    /\ \A i, j \in 1..Len(log) :
         i < j => StepRank(log[i][1]) < StepRank(log[j][1])
    /\ ~cmd.pkg.publish => log = <<>> /\ ~result.ok
    /\ \A i \in 1..Len(log) :
         (log[i][1] \in {"verify", "package", "read_readme", "stat_license"}
            /\ log[i][2] = "err") => i = Len(log) /\ ~result.ok
    /\ \A i \in 1..Len(log) :
         log[i][1] \in {"verify", "package", "status"} =>
           /\ i > 3
           /\ Tag(i - 1) = (IF log[i][1] = "verify" THEN "new_handle"
                            ELSE IF log[i][1] = "package" THEN "verify"
                            ELSE "package")
    /\ result.ok => log # <<>> /\ Tag(Len(log)) \in {"warn", "publish"}
    /\ Called("publish") =>
         /\ cmd.pkg.publish
         /\ Called("update") /\ Called("src_config") /\ Called("new_handle")
         /\ Logged("verify", "ok") /\ Logged("package", "ok")
         /\ Logged("status", <<"Uploading", cmd.pkg.name>>)
         /\ Tag(Len(log)) = "publish"

\* C16's case: every step ran and the upload was made.
C16_Witness ==
  /\ cmd.op = "publish"
  /\ Called("publish") /\ result.ok
  /\ Len(log) = 9

\* C17: a declared readme that cannot be read, or a declared license file
\* that does not exist, fails transmit with no publish call and no dry-run
\* warning, on a dry run as on a real one; the readme is read first and
\* both checks are made before the dry-run branch.
C17_MetadataChecks ==
  TransmitRan =>
    /\ IsSome(cmd.pkg.readme) <=> Called("read_readme")
    /\ (IsSome(cmd.pkg.license_file) /\ ~Logged("read_readme", "err"))
         <=> Called("stat_license")
    /\ Logged("read_readme", "err") =>
         /\ ~result.ok
         /\ ~Called("publish") /\ ~Called("warn")
    /\ Logged("stat_license", "err") =>
         /\ result = ErrOf(E_NoLicense, Unwrap(cmd.pkg.license_file))
         /\ ~Called("publish") /\ ~Called("warn")
    /\ \A i, j \in 1..Len(log) :
         (Tag(i) \in {"read_readme", "stat_license"} /\ Tag(j) \in {"warn", "publish"})
           => i < j

\* C17's case: a dry run whose readme was read and whose license file is
\* missing.
C17_Witness ==
  /\ TransmitRan /\ cmd.opts.dry_run
  /\ Logged("read_readme", "ok")
  /\ Logged("stat_license", "err")
  /\ ~result.ok

\* C17's other case: a dry run whose readme cannot be read.
C17_WitnessReadme ==
  /\ TransmitRan /\ cmd.opts.dry_run
  /\ Logged("read_readme", "err")
  /\ IsSome(cmd.pkg.license_file)

\* ---- modify_owners

\* The lines printed, in order.
Printed ==
  LET idx == { i \in 1..Len(log) : log[i][1] = "print" }
      first == Len(log) - Cardinality(idx)
  IN [k \in 1..Cardinality(idx) |-> log[first + k][2]]

\* C15: a listing prints one line per owner in the order of the registry's
\* response, after every other output: "login (name <email>)" with both
\* values, "login (value)" with exactly one, "login" with neither; nothing
\* is printed when the list is not obtained.
C15_OwnerLines ==
  cmd.op = "owners" =>
    IF IsSome(cmd.response)
    THEN LET owners == Unwrap(cmd.response) IN
         /\ cmd.opts.list
         /\ Count("print") = Len(owners)
         /\ \A i \in 1..Len(log) : log[i][1] = "print" => i > Len(log) - Len(owners)
         /\ \A k \in 1..Len(owners) :
              LET o == owners[k]
                  given == {o.name, o.email} \ {<<>>}
              IN Printed[k] =
                   IF IsSome(o.name) /\ IsSome(o.email)
                     THEN <<o.login, " (", o.name[1], " <", o.email[1], ">)">>
                   ELSE IF given # {}
                     THEN <<o.login, " (", (CHOOSE v \in given : TRUE)[1], ")">>
                   ELSE <<o.login>>
    ELSE ~Called("print")

\* C15's case: an owner with an email only listed before one with both.
C15_Witness ==
  /\ cmd.op = "owners"
  /\ cmd.response = Some(<<[login |-> "o3", name |-> <<>>, email |-> Some("c@x")],
                           [login |-> "o1", name |-> Some("A"), email |-> Some("a@x")]>>)
  /\ Printed = << <<"o3", " (", "c@x", ")">>,
                  <<"o1", " (", "A", " <", "a@x", ">)">> >>

\* The outcome logged with entry i, a call of the registry about owners.
CallOutcome(i) == IF Tag(i) = "list_owners" THEN log[i][2][2] ELSE log[i][2][3]

\* C21: modify_owners calls add_owners, remove_owners and list_owners in
\* that order, each at most once and only when requested, add and remove
\* right after their status line; a call that fails is the last thing done
\* and its error is returned, so a failed add is followed by no remove and
\* no list and a failed remove by no list; after a successful add a later
\* failure is followed by no further call, none that removes the added
\* owners in particular.
C21_OwnersOrder ==
  cmd.op = "owners" =>
    LET o == cmd.opts
        name == IF IsSome(o.krate) THEN o.krate[1] ELSE "ws-crate"
        calls == {"add_owners", "remove_owners", "list_owners"}
        rank == [t \in calls |-> IF t = "add_owners" THEN 1
                                 ELSE IF t = "remove_owners" THEN 2 ELSE 3]
    IN /\ \A t \in calls : Count(t) <= 1
       /\ \A i, j \in 1..Len(log) :
            (i < j /\ Tag(i) \in calls /\ Tag(j) \in calls)
              => rank[Tag(i)] < rank[Tag(j)]
       /\ \A i \in 1..Len(log) :
            /\ Tag(i) = "add_owners" =>
                 /\ IsSome(o.to_add)
                 /\ log[i][2][1] = name /\ log[i][2][2] = o.to_add[1]
                 /\ i > 1 /\ Tag(i - 1) = "status"
                 /\ log[i - 1][2] = <<"Owner", "adding", o.to_add[1], name>>
            /\ Tag(i) = "remove_owners" =>
                 /\ IsSome(o.to_remove)
                 /\ log[i][2][1] = name /\ log[i][2][2] = o.to_remove[1]
                 /\ i > 1 /\ Tag(i - 1) = "status"
                 /\ log[i - 1][2] = <<"Owner", "removing", o.to_remove[1], name>>
            /\ Tag(i) = "list_owners" => o.list /\ log[i][2][1] = name
            /\ Tag(i) = "status" => i < Len(log) /\ Tag(i + 1) \in calls
            /\ Tag(i) \in calls => \E k \in 1..(i - 1) : Tag(k) = "new_handle"
            /\ (Tag(i) \in calls /\ CallOutcome(i) = "err") =>
                 /\ i = Len(log)
                 /\ result = ErrOf(CASE Tag(i) = "add_owners" -> "failed to add owners to crate"
                                      [] Tag(i) = "remove_owners" -> "failed to remove owners from crate"
                                      [] Tag(i) = "list_owners" -> "failed to list owners of crate",
                                    name)
       /\ result.ok =>
            /\ IsSome(o.to_add) <=> Called("add_owners")
            /\ IsSome(o.to_remove) <=> Called("remove_owners")
            /\ o.list <=> Called("list_owners")
       /\ (Called("add_owners") /\ ~result.ok) =>
            \/ Tag(Len(log)) = "add_owners"
            \/ /\ IsSome(o.to_remove) <=> Called("remove_owners")
               /\ Tag(Len(log)) = "remove_owners" \/ o.list

\* C21's case: owners were added, the removal failed, and the listing that
\* was asked for was not made.
C21_Witness ==
  /\ cmd.op = "owners"
  /\ IsSome(cmd.opts.to_add) /\ IsSome(cmd.opts.to_remove) /\ cmd.opts.list
  /\ Logged("add_owners", <<"foo", <<"u1">>, "ok">>)
  /\ log[Len(log)] = <<"remove_owners", <<"foo", <<"u2">>, "err">> >>
  /\ ~result.ok

\* C21's other cases: a failed add, and a run of all three calls.
C21_WitnessAdd ==
  /\ cmd.op = "owners"
  /\ IsSome(cmd.opts.to_remove) /\ cmd.opts.list
  /\ log # <<>> /\ Tag(Len(log)) = "add_owners" /\ ~result.ok

C21_WitnessAll ==
  /\ cmd.op = "owners" /\ result.ok
  /\ Called("add_owners") /\ Called("remove_owners") /\ Called("list_owners")
  /\ Count("print") = 2

\* ------------------------------------------------------------------------
\* http_proxy and http_proxy_exists
\* ------------------------------------------------------------------------

\* lines 243-244: the environment variables http_proxy_exists looks for.
ProxyVars == {"http_proxy", "HTTP_PROXY", "https_proxy", "HTTPS_PROXY"}
\* The environment may set other variables as well.
EnvNames == ProxyVars \cup {"ALL_PROXY"}

\* git2::Config::open_default: <<>> when it fails, else <<p>> with p the
\* Option that get_str("http.proxy") finds.
GitConfigs == {<<>>, Some(<<>>), Some(Some("git-proxy"))}

\* What the proxy lookups read: cargo's http.proxy, git's configuration and
\* the set of environment variables that are set.
NetConfigs == [proxy : {<<>>, Some("cargo-proxy")},
               git : GitConfigs,
               env : SUBSET EnvNames]

\* A lookup that reads cargo's http.proxy only.
http_proxy_CargoOnly(cfg) == cfg.proxy

\* lines 212-227
http_proxy(cfg) ==
  IF IsSome(cfg.proxy) THEN cfg.proxy
  ELSE IF IsSome(cfg.git) /\ IsSome(Unwrap(cfg.git)) THEN Unwrap(cfg.git)
  ELSE <<>>

\* lines 239-246
http_proxy_exists(cfg) ==
  IF IsSome(http_proxy(cfg)) THEN TRUE
  ELSE \E v \in ProxyVars : v \in cfg.env

InitNet ==
  /\ IdleSet
  /\ IdleTarget
  /\ config \in NetConfigs
  /\ cmd = [op |-> "idle"]
  /\ log = <<>>
  /\ result = <<>>

HttpProxy ==
  /\ cmd.op = "idle"
  /\ cmd' = [op |-> "http_proxy"]
  /\ result' = [ok |-> TRUE, value |-> http_proxy(config)]
  /\ UNCHANGED <<config, log, setVars, targetVars>>

HttpProxyExists ==
  /\ cmd.op = "idle"
  /\ cmd' = [op |-> "http_proxy_exists"]
  /\ result' = [ok |-> TRUE, value |-> http_proxy_exists(config)]
  /\ UNCHANGED <<config, log, setVars, targetVars>>

NextNet == HttpProxy \/ HttpProxyExists

SpecNet == InitNet /\ [][NextNet]_vars

GitProxy(cfg) == IsSome(cfg.git) /\ IsSome(Unwrap(cfg.git))

\* C13 as stated: http_proxy_exists is true exactly when cargo's http.proxy
\* value exists or one of the four variables is set.
C13_ProxyExists ==
  cmd.op = "http_proxy_exists" =>
    result.value = (IsSome(config.proxy) \/ config.env \cap ProxyVars # {})

\* C13, amended: http_proxy_exists is true exactly when cargo's http.proxy
\* value exists, or git's default configuration opens and has an http.proxy
\* value, or one of the four variables is set.
C13_ProxyExistsGit ==
  cmd.op = "http_proxy_exists" =>
    /\ result.ok
    /\ result.value = (\/ IsSome(config.proxy)
                       \/ GitProxy(config)
                       \/ config.env \cap ProxyVars # {})

\* C13's case: only git's configuration names a proxy.
C13_Witness ==
  /\ cmd.op = "http_proxy_exists"
  /\ ~IsSome(config.proxy)
  /\ GitProxy(config)
  /\ config.env \cap ProxyVars = {}
  /\ result.value

====
